---------------------------- MODULE Spec2Model ----------------------------
(***************************************************************************)
(* A model of the staged PSD rendering pipeline of src/lib/psd-service.ts: *)
(* renderPSDToCanvas and the helpers it calls (countLayers,                *)
(* pixelDataToCanvas, buildResult, compositeRawLayers, renderLayersRaw,    *)
(* compositeCanvasLayers, renderLayersCanvas, BLEND_MODE_MAP).             *)
(*                                                                         *)
(* An optional JavaScript value (undefined / null or a value) is a         *)
(* sequence of length 0 or 1: None is <<>>, Some(v) is <<v>>.              *)
(*                                                                         *)
(* The parser (readPsd of ag-psd) and the browser canvas are the           *)
(* environment.  A parse either throws or returns a document; which one,   *)
(* and which document, is chosen nondeterministically at every call.  The  *)
(* document's merged image (psd.imageData or psd.canvas) is allocated by   *)
(* the parser with the header's width and height.                          *)
(***************************************************************************)
EXTENDS Integers, Sequences, FiniteSets, TLC

VARIABLES
    pc,         \* position of the one invocation of renderPSDToCanvas
    buffer,     \* None, or Some(the bytes file.arrayBuffer() resolved to)
    attempts,   \* history: one record per stage attempted, in order
    log,        \* history: the console.warn lines, in order
    result,     \* None, or Some(the PSDRenderResult returned)
    error,      \* None, or Some(the message of the error raised)
    parsed,     \* None, or Some(the document the returning stage parsed)
    input,      \* None, or Some(the arguments a helper is called with on its own)
    output,     \* the values the helper calls on input returned, by call
    viewer,     \* None, or Some(the state of a mounted PSDViewerTool)
    compressor  \* None, or Some(the state of a mounted ImageCompressorTool)

vars == <<pc, buffer, attempts, log, result, error, parsed, input, output, viewer, compressor>>

None == <<>>
Some(v) == <<v>>

--------------------------------------------------------------------------
(* Bounds of the model *)

\* longest input buffer, in bytes
MaxBufLen == 4
\* largest document / surface dimension
MaxDim == 2
\* most nodes in a document's layer tree
MaxNodes == 2

--------------------------------------------------------------------------
(* Program constants *)

\* '8BPS'
PSD_SIGNATURE == 943870035
\* '%PDF'
PDF_SIGNATURE == 626017350

ERR_WRONG_TOOL == "This is a PDF file. Use the PDF Viewer tool."
ERR_INVALID_SIGNATURE == "Not a valid PSD file."
ERR_UNSUPPORTED == "Unsupported PSD structure. Try saving with \"Maximize Compatibility\" in Photoshop."
\* a rejection of file.arrayBuffer(): the browser's error, not one of ours
ERR_READ == "NotReadableError"

\* type RenderStage, in the order renderPSDToCanvas tries them
RenderStage == <<"raw-data", "high-fidelity", "safe-mode", "composite">>

--------------------------------------------------------------------------
(* Values: layers, pixel data, canvases, 2D contexts *)

\* a || b on numbers
OrNum(a, b) == IF a # 0 THEN a ELSE b

Min(a, b) == IF a <= b THEN a ELSE b

\* PixelData of ag-psd: data.length, width, height; from: the owner of the
\* object, which is the parse (index into RenderStage) whose document holds
\* it or, where a compositor is called on its own, the position of its layer
PixelData(n, w, h, from) == [length |-> n, width |-> w, height |-> h, from |-> from]

\* an HTMLCanvasElement: its size, the paint calls made on it in order, and
\* the parse whose document it was made from
Canvas(w, h, pixels, from) == [width |-> w, height |-> h, pixels |-> pixels, from |-> from]

\* a Layer of ag-psd, with the fields psd-service.ts reads
Layer(hidden, adjustment, children, imageData, canvas, opacity, blendMode, left, top) ==
    [hidden |-> hidden, adjustment |-> adjustment, children |-> children,
     imageData |-> imageData, canvas |-> canvas, opacity |-> opacity,
     blendMode |-> blendMode, left |-> left, top |-> top]

\* a fresh CanvasRenderingContext2D on a canvas with nothing painted; threw:
\* a call on it has thrown, which ends the compositing that uses it; visits:
\* history, the number of loop iterations of the compositor that uses it
NewContext ==
    [pixels |-> <<>>, globalAlpha |-> 255, globalCompositeOperation |-> "source-over",
     saved |-> <<>>, threw |-> FALSE, visits |-> 0]

\* ctx.save()
CtxSave(ctx) ==
    [ctx EXCEPT !.saved = Append(@, [globalAlpha |-> ctx.globalAlpha,
                                     globalCompositeOperation |-> ctx.globalCompositeOperation])]

\* ctx.restore()
CtxRestore(ctx) ==
    IF ctx.saved = <<>> THEN ctx
    ELSE LET top == ctx.saved[Len(ctx.saved)] IN
         [ctx EXCEPT !.globalAlpha = top.globalAlpha,
                     !.globalCompositeOperation = top.globalCompositeOperation,
                     !.saved = SubSeq(@, 1, Len(@) - 1)]

\* ctx.drawImage(src, x, y) under the context's current alpha and operation;
\* a source canvas of zero width or height makes it throw
CtxDrawImage(ctx, src, x, y) ==
    IF src.width = 0 \/ src.height = 0 THEN [ctx EXCEPT !.threw = TRUE] ELSE
    [ctx EXCEPT !.pixels = Append(@, [call |-> "drawImage", x |-> x, y |-> y,
                                      alpha |-> ctx.globalAlpha,
                                      gco |-> ctx.globalCompositeOperation,
                                      src |-> Some(src), n |-> 0])]

--------------------------------------------------------------------------
(* The helpers of psd-service.ts *)

BlendModeKeys ==
    {"normal", "pass through", "dissolve", "multiply", "screen", "overlay",
     "darken", "lighten", "color dodge", "linear dodge", "color burn",
     "linear burn", "hard light", "soft light", "vivid light", "linear light",
     "pin light", "hard mix", "difference", "exclusion", "subtract", "divide",
     "hue", "saturation", "color", "luminosity", "darker color", "lighter color"}

\* BLEND_MODE_MAP with the modes the canvas has no operation for as 'source-over'
BLEND_MODE_MAP_NoApproximation(key) ==
    CASE key \in {"normal", "pass through", "dissolve", "linear dodge", "linear burn",
                  "vivid light", "linear light", "pin light", "hard mix", "subtract",
                  "divide", "darker color", "lighter color"} -> "source-over"
      [] key = "color dodge" -> "color-dodge"
      [] key = "color burn" -> "color-burn"
      [] key = "hard light" -> "hard-light"
      [] key = "soft light" -> "soft-light"
      [] OTHER -> key

\* BLEND_MODE_MAP[key] for a key of the table
BLEND_MODE_MAP(key) ==
    CASE key \in {"normal", "pass through", "dissolve"} -> "source-over"
      [] key = "multiply" -> "multiply"
      [] key = "screen" -> "screen"
      [] key = "overlay" -> "overlay"
      [] key \in {"darken", "darker color"} -> "darken"
      [] key \in {"lighten", "lighter color"} -> "lighten"
      [] key \in {"color dodge", "linear dodge"} -> "color-dodge"
      [] key \in {"color burn", "linear burn"} -> "color-burn"
      [] key \in {"hard light", "vivid light", "linear light", "pin light", "hard mix"}
            -> "hard-light"
      [] key = "soft light" -> "soft-light"
      [] key \in {"difference", "subtract", "divide"} -> "difference"
      [] key = "exclusion" -> "exclusion"
      [] key = "hue" -> "hue"
      [] key = "saturation" -> "saturation"
      [] key = "color" -> "color"
      [] key = "luminosity" -> "luminosity"

\* CompositeOperation without the fallbacks: the tag itself is assigned
CompositeOperation_NoFallback(blendMode) ==
    IF blendMode = None THEN "" ELSE blendMode[1]

\* BLEND_MODE_MAP[l.blendMode || 'normal'] || 'source-over'
CompositeOperation(blendMode) ==
    LET key == IF blendMode = None \/ blendMode = Some("") THEN "normal" ELSE blendMode[1]
    IN  IF key \in BlendModeKeys THEN BLEND_MODE_MAP(key) ELSE "source-over"

\* countLayers counting the top-level layers only
countLayers_TopLevelOnly(layers) ==
    IF layers = None THEN 0 ELSE Len(layers[1])

RECURSIVE countLayers(_)
RECURSIVE countFrom(_, _)
\* layers.reduce((n, l) => n + 1 + countLayers(l.children), 0), from index i
countFrom(list, i) ==
    IF i > Len(list) THEN 0
    ELSE 1 + countLayers(list[i].children) + countFrom(list, i + 1)

countLayers(layers) ==
    IF layers = None THEN 0 ELSE countFrom(layers[1], 1)

\* whether pixelDataToCanvas(pd) throws: new ImageData(buf, w, h) rejects an
\* empty buffer and a zero width or height
pixelDataThrows(pd, has2d) ==
    has2d /\ pd.length > 0 /\ pd.width * pd.height = 0

\* pixelDataToCanvas(pd); has2d: getContext('2d') gave a context
pixelDataToCanvas(pd, has2d) ==
    Canvas(pd.width, pd.height,
           IF has2d /\ pd.length > 0
           THEN << [call |-> "putImageData", x |-> 0, y |-> 0, alpha |-> 255,
                    gco |-> "source-over", src |-> None,
                    n |-> Min(pd.length, pd.width * pd.height * 4)] >>
           ELSE <<>>,
           pd.from)

\* buildResult with width and height exchanged
buildResult_SwapsSize(canvas, stage, psd) ==
    [canvas |-> canvas, stage |-> stage,
     layerCount |-> countLayers(psd.children),
     width |-> OrNum(psd.height, canvas.height),
     height |-> OrNum(psd.width, canvas.width)]

\* buildResult reporting the first stage whatever stage built the surface
buildResult_FirstStage(canvas, stage, psd) ==
    [canvas |-> canvas, stage |-> "raw-data",
     layerCount |-> countLayers(psd.children),
     width |-> OrNum(psd.width, canvas.width),
     height |-> OrNum(psd.height, canvas.height)]

buildResult(canvas, stage, psd) ==
    [canvas |-> canvas, stage |-> stage,
     layerCount |-> countLayers(psd.children),
     width |-> OrNum(psd.width, canvas.width),
     height |-> OrNum(psd.height, canvas.height)]

\* SkipLayer letting adjustment layers through
SkipLayer_PaintsAdjustment(l) == l.hidden

\* l.hidden || l.adjustment: the layer, and all below it, is passed over
SkipLayer(l) == l.hidden \/ l.adjustment

\* GlobalAlpha with || in the place of ??: an opacity of 0 counts as missing
GlobalAlpha_ZeroAsMissing(opacity) ==
    IF opacity = None \/ opacity = Some(0) THEN 255 ELSE opacity[1]

\* (l.opacity ?? 255) / 255, as the numerator of a fraction over 255
GlobalAlpha(opacity) ==
    IF opacity = None THEN 255 ELSE opacity[1]

\* a list back to front
Reverse(list) == [i \in 1..Len(list) |-> list[Len(list) + 1 - i]]

\* HasImageData without the checks of width and height
HasImageData_AnySize(l) == l.imageData # None

\* l.imageData && l.imageData.width > 0 && l.imageData.height > 0
HasImageData(l) ==
    l.imageData # None /\ l.imageData[1].width > 0 /\ l.imageData[1].height > 0

RECURSIVE renderLayersRaw(_, _, _)
RECURSIVE renderRawFrom(_, _, _, _)
\* the loop of renderLayersRaw at index i (1-based), counting down
renderRawFrom(ctx0, layers, i, has2d) ==
    IF i < 1 \/ ctx0.threw THEN ctx0
    ELSE LET l == layers[i]
             ctx == [ctx0 EXCEPT !.visits = @ + 1]
         IN
         IF SkipLayer(l) THEN renderRawFrom(ctx, layers, i - 1, has2d)
         ELSE IF l.children # None
         THEN renderRawFrom(renderLayersRaw(ctx, l.children[1], has2d), layers, i - 1, has2d)
         ELSE IF HasImageData(l)
         THEN LET lc == pixelDataToCanvas(l.imageData[1], has2d)
                  c1 == CtxSave(ctx)
                  c2 == [c1 EXCEPT !.globalAlpha = GlobalAlpha(l.opacity)]
                  c3 == [c2 EXCEPT !.globalCompositeOperation =
                                       CompositeOperation(l.blendMode)]
                  c4 == CtxDrawImage(c3,  lc,
                                     IF l.left = None THEN 0 ELSE l.left[1],
                                     IF l.top = None THEN 0 ELSE l.top[1])
              IN  renderRawFrom(IF c4.threw THEN c4 ELSE CtxRestore(c4),
                                layers, i - 1, has2d)
         ELSE renderRawFrom(ctx, layers, i - 1, has2d)

\* renderLayersRaw walking the list from its first layer to its last
renderLayersRaw_FrontToBack(ctx, layers, has2d) ==
    renderRawFrom(ctx, Reverse(layers), Len(layers), has2d)

renderLayersRaw(ctx, layers, has2d) == renderRawFrom(ctx, layers, Len(layers), has2d)

RECURSIVE renderLayersCanvas(_, _)
RECURSIVE renderCanvasFrom(_, _, _)
\* the loop of renderLayersCanvas at index i (1-based), counting down
renderCanvasFrom(ctx0, layers, i) ==
    IF i < 1 \/ ctx0.threw THEN ctx0
    ELSE LET l == layers[i]
             ctx == [ctx0 EXCEPT !.visits = @ + 1]
         IN
         IF SkipLayer(l) THEN renderCanvasFrom(ctx, layers, i - 1)
         ELSE IF l.children # None
         THEN renderCanvasFrom(renderLayersCanvas(ctx, l.children[1]), layers, i - 1)
         ELSE IF l.canvas # None
         THEN LET c1 == CtxSave(ctx)
                  c2 == [c1 EXCEPT !.globalAlpha = GlobalAlpha(l.opacity)]
                  c3 == [c2 EXCEPT !.globalCompositeOperation =
                                       CompositeOperation(l.blendMode)]
                  c4 == CtxDrawImage(c3, l.canvas[1],
                                     IF l.left = None THEN 0 ELSE l.left[1],
                                     IF l.top = None THEN 0 ELSE l.top[1])
              IN  renderCanvasFrom(IF c4.threw THEN c4 ELSE CtxRestore(c4), layers, i - 1)
         ELSE renderCanvasFrom(ctx, layers, i - 1)

renderLayersCanvas(ctx, layers) == renderCanvasFrom(ctx, layers, Len(layers))

\* NothingToComposite without the checks of width and height
NothingToComposite_IgnoresSize(psd) ==
    \/ psd.children = None
    \/ Len(psd.children[1]) = 0

\* !psd.width || !psd.height || !psd.children?.length
NothingToComposite(psd) ==
    \/ psd.width = 0
    \/ psd.height = 0
    \/ psd.children = None
    \/ Len(psd.children[1]) = 0

\* What a call returns or throws: threw, or value (None for null).
Thrown == [threw |-> TRUE, value |-> None]
Returned(v) == [threw |-> FALSE, value |-> v]

\* compositeRawLayers(psd): null, a canvas, or an exception of the compositor
compositeRawLayers(psd, has2d) ==
    IF NothingToComposite(psd) THEN Returned(None)
    ELSE IF ~has2d THEN Returned(None)
    ELSE LET ctx == renderLayersRaw(NewContext, psd.children[1], has2d) IN
         IF ctx.threw THEN Thrown
         ELSE Returned(Some(Canvas(psd.width, psd.height, ctx.pixels, psd.from)))

\* compositeCanvasLayers(psd): null, a canvas, or an exception of the compositor
compositeCanvasLayers(psd, has2d) ==
    IF NothingToComposite(psd) THEN Returned(None)
    ELSE IF ~has2d THEN Returned(None)
    ELSE LET ctx == renderLayersCanvas(NewContext, psd.children[1]) IN
         IF ctx.threw THEN Thrown
         ELSE Returned(Some(Canvas(psd.width, psd.height, ctx.pixels, psd.from)))

--------------------------------------------------------------------------
(* The environment: input buffers and what readPsd can return *)

Byte8BPS == <<56, 66, 80, 83>>
BytePDF == <<37, 80, 68, 70>>

\* the four leading bytes the input buffers are cut from: the two signatures
\* and two that differ from each in one or two bytes
Heads == {Byte8BPS, BytePDF, <<56, 66, 80, 70>>, <<37, 80, 80, 83>>}

\* the first n bytes of head h followed by zero bytes
Padded(h, n) == [i \in 1..n |-> IF i <= Len(h) THEN h[i] ELSE 0]

\* the buffers file.arrayBuffer() can resolve to
Buffers == {Padded(h, n) : h \in Heads, n \in 0..MaxBufLen}

\* getUint32 reading little-endian
getUint32_LittleEndian(b) == b[4] * 16777216 + b[3] * 65536 + b[2] * 256 + b[1]

\* new DataView(buffer).getUint32(0): big-endian
getUint32(b) == b[1] * 16777216 + b[2] * 65536 + b[3] * 256 + b[4]

\* the options object of a readPsd call (a key left out is false)
ReadOptions(useImageData, skipLinkedFilesData, skipLayerImageData, logMissingFeatures) ==
    [useImageData |-> useImageData, skipThumbnail |-> TRUE,
     skipLinkedFilesData |-> skipLinkedFilesData,
     skipLayerImageData |-> skipLayerImageData,
     logMissingFeatures |-> logMissingFeatures]

\* StageOptions with linked files read in the safe-mode stage
StageOptions_SafeModeReadsLinkedFiles ==
    << ReadOptions(TRUE, FALSE, FALSE, TRUE),
       ReadOptions(FALSE, FALSE, FALSE, TRUE),
       ReadOptions(FALSE, FALSE, FALSE, TRUE),
       ReadOptions(FALSE, TRUE, TRUE, FALSE) >>

\* the options each stage passes to readPsd
StageOptions ==
    << ReadOptions(TRUE, FALSE, FALSE, TRUE),
       ReadOptions(FALSE, FALSE, FALSE, TRUE),
       ReadOptions(FALSE, TRUE, FALSE, TRUE),
       ReadOptions(FALSE, TRUE, TRUE, FALSE) >>

\* the image the parser painted itself (a merged image, a layer's canvas)
ParserCanvas(w, h, from) ==
    Canvas(w, h, << [call |-> "readPsd", x |-> 0, y |-> 0, alpha |-> 255,
                     gco |-> "source-over", src |-> None, n |-> w * h * 4] >>, from)

\* the positions (index paths) of the nodes of a layer list
RECURSIVE Positions(_)
Positions(list) ==
    UNION { {<<i>>} \cup
            (IF list[i].children = None THEN {}
             ELSE {<<i>> \o p : p \in Positions(list[i].children[1])})
            : i \in 1..Len(list) }

\* the number of nodes, leaves and groups at every depth, of a layer list
NodeCount(list) == Cardinality(Positions(list))

\* the leaf layers a parse under options opts can return: visible, hidden or
\* adjustment, with or without pixels of the kind the options ask for
Leaves(opts, from) ==
    { Layer(f[1], f[2], None, px[1], px[2], None, None, None, None) :
        f \in {<<FALSE, FALSE>>, <<TRUE, FALSE>>, <<FALSE, TRUE>>},
        px \in IF opts.skipLayerImageData THEN { <<None, None>> }
               ELSE IF opts.useImageData
               THEN { <<None, None>>, <<Some(PixelData(4, 1, 1, from)), None>> }
               ELSE { <<None, None>>, <<None, Some(ParserCanvas(1, 1, from))>> } }

RECURSIVE Forests(_, _, _)
\* the layers (leaves and groups) of at most n nodes
Nodes(n, opts, from) ==
    Leaves(opts, from) \cup
    { Layer(h, FALSE, Some(f), None, None, None, None, None, None) :
        h \in BOOLEAN, f \in Forests(n - 1, opts, from) }

\* the layer lists of at most n nodes in all
Forests(n, opts, from) ==
    IF n = 0 THEN { <<>> }
    ELSE { <<>> } \cup
         UNION { { <<nd>> \o rest : rest \in Forests(n - NodeCount(<<nd>>), opts, from) }
                 : nd \in Nodes(n, opts, from) }

\* the Psd documents a parse under options opts can return
Documents(opts, from) ==
    { [width |-> w, height |-> h,
       imageData |-> IF merged /\ opts.useImageData
                     THEN Some(PixelData(w * h * 4, w, h, from)) ELSE None,
       canvas |-> IF merged /\ ~opts.useImageData
                  THEN Some(ParserCanvas(w, h, from)) ELSE None,
       children |-> ch, from |-> from] :
        w \in 0..MaxDim, h \in 0..MaxDim, merged \in BOOLEAN,
        ch \in {None} \cup { Some(f) : f \in Forests(MaxNodes, opts, from) } }

\* how the browser's canvas API behaves during one stage: getContext('2d')
\* gives a context or null (has2d), and, with a context, painting goes
\* through or fails with an exception (fault), as on a failed allocation
CanvasEnvs ==
    { [has2d |-> TRUE, fault |-> FALSE],
      [has2d |-> FALSE, fault |-> FALSE],
      [has2d |-> TRUE, fault |-> TRUE] }

Documents0 == Documents(StageOptions[1], 1)
Documents1 == Documents(StageOptions[2], 2)
Documents2 == Documents(StageOptions[3], 3)
Documents3 == Documents(StageOptions[4], 4)

\* readPsd with the document of the first parse handed to every stage
readPsd_FirstParseReused(b, s) ==
    {Thrown} \cup
    IF Len(b) >= 4 /\ getUint32(b) = PSD_SIGNATURE
    THEN { Returned(Some(d)) : d \in Documents0 }
    ELSE {}

\* readPsd(buffer, options) of stage s: it throws, or returns a document.  A
\* buffer that does not start with the PSD signature makes it throw.
readPsd(b, s) ==
    {Thrown} \cup
    IF Len(b) >= 4 /\ getUint32(b) = PSD_SIGNATURE
    THEN { Returned(Some(d)) : d \in CASE s = 1 -> Documents0 [] s = 2 -> Documents1
                                       [] s = 3 -> Documents2 [] s = 4 -> Documents3 }
    ELSE {}

--------------------------------------------------------------------------
(* renderPSDToCanvas *)

\* How one stage's try block ended: kind is "ok" (it returned result),
\* "no-surface" (it fell through), "parse-threw" (readPsd threw) or
\* "surface-threw" (building the surface threw); psd is the document parsed.
StageEnd(kind, res, psd) == [kind |-> kind, result |-> res, psd |-> psd]

\* Stage0Try with the manual composite tried first and the merged raw image
\* used only when there is no composite
Stage0Try_ManualFirst(r, has2d, fault) ==
    IF r.threw THEN StageEnd("parse-threw", None, None)
    ELSE LET psd == r.value[1]
             manual == compositeRawLayers(psd, has2d)
         IN  IF manual.threw \/ (fault /\ ~NothingToComposite(psd))
             THEN StageEnd("surface-threw", None, None)
             ELSE IF manual.value # None
             THEN StageEnd("ok", Some(buildResult(manual.value[1], "raw-data", psd)),
                           Some(psd))
             ELSE IF psd.imageData # None /\ psd.width # 0 /\ psd.height # 0
             THEN IF fault \/ pixelDataThrows(psd.imageData[1], has2d)
                  THEN StageEnd("surface-threw", None, None)
                  ELSE StageEnd("ok",
                                Some(buildResult(pixelDataToCanvas(psd.imageData[1], has2d),
                                                 "raw-data", psd)),
                                Some(psd))
             ELSE StageEnd("no-surface", None, None)

\* the body of the try block of stage 0, given what readPsd did (r), whether
\* getContext('2d') gives a context (has2d) and whether the canvas API fails
\* with an exception while the surface is built (fault)
Stage0Try(r, has2d, fault) ==
    IF r.threw THEN StageEnd("parse-threw", None, None)
    ELSE LET psd == r.value[1] IN
         IF psd.imageData # None /\ psd.width # 0 /\ psd.height # 0
         THEN IF fault \/ pixelDataThrows(psd.imageData[1], has2d)
              THEN StageEnd("surface-threw", None, None)
              ELSE StageEnd("ok",
                            Some(buildResult(pixelDataToCanvas(psd.imageData[1], has2d),
                                             "raw-data", psd)),
                            Some(psd))
         ELSE LET manual == compositeRawLayers(psd, has2d) IN
              IF manual.threw \/ (fault /\ ~NothingToComposite(psd))
              THEN StageEnd("surface-threw", None, None)
              ELSE IF manual.value # None
              THEN StageEnd("ok", Some(buildResult(manual.value[1], "raw-data", psd)),
                            Some(psd))
              ELSE StageEnd("no-surface", None, None)

\* the body of the try block of stage 1
Stage1Try(r, has2d, fault) ==
    IF r.threw THEN StageEnd("parse-threw", None, None)
    ELSE LET psd == r.value[1] IN
         IF psd.canvas # None
         THEN StageEnd("ok", Some(buildResult(psd.canvas[1], "high-fidelity", psd)),
                       Some(psd))
         ELSE LET manual == compositeCanvasLayers(psd, has2d) IN
              IF manual.threw \/ (fault /\ ~NothingToComposite(psd))
              THEN StageEnd("surface-threw", None, None)
              ELSE IF manual.value # None
              THEN StageEnd("ok", Some(buildResult(manual.value[1], "high-fidelity", psd)),
                            Some(psd))
              ELSE StageEnd("no-surface", None, None)

\* the body of the try block of stage 2
Stage2Try(r) ==
    IF r.threw THEN StageEnd("parse-threw", None, None)
    ELSE LET psd == r.value[1] IN
         IF psd.canvas # None
         THEN StageEnd("ok", Some(buildResult(psd.canvas[1], "safe-mode", psd)), Some(psd))
         ELSE StageEnd("no-surface", None, None)

\* Stage3Try looking for the raw merged image instead of the merged canvas
Stage3Try_ReadsImageData(r) ==
    IF r.threw THEN StageEnd("parse-threw", None, None)
    ELSE LET psd == r.value[1] IN
         IF psd.imageData # None
         THEN StageEnd("ok", Some(buildResult(pixelDataToCanvas(psd.imageData[1], TRUE),
                                              "composite", psd)), Some(psd))
         ELSE StageEnd("no-surface", None, None)

\* the body of the try block of stage 3
Stage3Try(r) ==
    IF r.threw THEN StageEnd("parse-threw", None, None)
    ELSE LET psd == r.value[1] IN
         IF psd.canvas # None
         THEN StageEnd("ok", Some(buildResult(psd.canvas[1], "composite", psd)), Some(psd))
         ELSE StageEnd("no-surface", None, None)

\* what the catch clause of stage s (1..4) writes with console.warn
CatchLog(s) ==
    CASE s = 1 -> <<>>
      [] s = 2 -> << "[PSD] Stage 1 failed:" >>
      [] s = 3 -> << "[PSD] Stage 2 failed:" >>
      [] s = 4 -> << "[PSD] Stage 3 failed:" >>

\* AfterStage with the safe-mode stage left out of the sequence
AfterStage_SkipsSafeMode(s) ==
    CASE s = 1 -> "stage1" [] s = 2 -> "stage3" [] s = 3 -> "stage3" [] s = 4 -> "exhausted"

\* AfterStage giving up after the safe-mode stage, the composite stage untried
AfterStage_GivesUpEarly(s) ==
    CASE s = 1 -> "stage1" [] s = 2 -> "stage2" [] s = 3 -> "exhausted" [] s = 4 -> "exhausted"

\* AfterStage going back to the first stage after the last one failed
AfterStage_StartsOver(s) ==
    CASE s = 1 -> "stage1" [] s = 2 -> "stage2" [] s = 3 -> "stage3" [] s = 4 -> "stage0"

\* the statement that follows the try/catch of stage s
AfterStage(s) ==
    CASE s = 1 -> "stage1" [] s = 2 -> "stage2" [] s = 3 -> "stage3" [] s = 4 -> "exhausted"

\* whether a readPsd call returned a document that carries a merged image
HasMerged(r) ==
    ~r.threw /\ (r.value[1].imageData # None \/ r.value[1].canvas # None)

\* EndStage with the exception of a surface being built left uncaught
EndStage_SurfaceThrowEscapes(s, r, end) ==
    /\ attempts' = Append(attempts, [stage |-> RenderStage[s], options |-> StageOptions[s],
                                     outcome |-> end.kind, merged |-> HasMerged(r)])
    /\ log' = IF end.kind = "parse-threw" THEN log \o CatchLog(s) ELSE log
    /\ IF end.kind = "ok"
       THEN /\ result' = end.result
            /\ parsed' = end.psd
            /\ pc' = "returned"
            /\ error' = error
       ELSE IF end.kind = "surface-threw"
       THEN /\ pc' = "failed"
            /\ error' = Some("InvalidStateError")
            /\ UNCHANGED <<result, parsed>>
       ELSE /\ pc' = AfterStage(s)
            /\ UNCHANGED <<result, parsed, error>>
    /\ UNCHANGED <<buffer, input, output, viewer, compressor>>

\* Stage s ran its readPsd call, which did r, and its try block ended as end:
\* return the result, or go (through the catch clause, on a throw) to the
\* statement after the stage.
EndStage(s, r, end) ==
    /\ attempts' = Append(attempts, [stage |-> RenderStage[s], options |-> StageOptions[s],
                                     outcome |-> end.kind, merged |-> HasMerged(r)])
    /\ log' = IF end.kind \in {"parse-threw", "surface-threw"} THEN log \o CatchLog(s)
              ELSE log
    /\ IF end.kind = "ok"
       THEN /\ result' = end.result
            /\ parsed' = end.psd
            /\ pc' = "returned"
       ELSE /\ pc' = AfterStage(s)
            /\ UNCHANGED <<result, parsed>>
    /\ UNCHANGED <<buffer, error, input, output, viewer, compressor>>

Init ==
    /\ pc = "read"
    /\ buffer = None
    /\ attempts = <<>>
    /\ log = <<>>
    /\ result = None
    /\ error = None
    /\ parsed = None
    /\ input = None
    /\ output = <<>>
    /\ viewer = None
    /\ compressor = None

\* await file.arrayBuffer() resolves
ReadBuffer ==
    /\ pc = "read"
    /\ \E b \in Buffers : buffer' = Some(b)
    /\ pc' = "signature"
    /\ UNCHANGED <<attempts, log, result, error, parsed, input, output, viewer, compressor>>

\* await file.arrayBuffer() rejects: the rejection leaves renderPSDToCanvas
ReadRejects ==
    /\ pc = "read"
    /\ error' = Some(ERR_READ)
    /\ pc' = "failed"
    /\ UNCHANGED <<buffer, attempts, log, result, parsed, input, output, viewer, compressor>>

\* the magic-number check
CheckSignature ==
    /\ pc = "signature"
    /\ IF Len(buffer[1]) >= 4
       THEN LET sig == getUint32(buffer[1]) IN
            IF sig = PDF_SIGNATURE
            THEN error' = Some(ERR_WRONG_TOOL) /\ pc' = "failed"
            ELSE IF sig # PSD_SIGNATURE
            THEN error' = Some(ERR_INVALID_SIGNATURE) /\ pc' = "failed"
            ELSE error' = error /\ pc' = "stage0"
       ELSE error' = error /\ pc' = "stage0"
    /\ UNCHANGED <<buffer, attempts, log, result, parsed, input, output, viewer, compressor>>

Stage0 ==
    /\ pc = "stage0"
    /\ \E r \in readPsd(buffer[1], 1), env \in CanvasEnvs :
          EndStage(1, r, Stage0Try(r, env.has2d, env.fault))

Stage1 ==
    /\ pc = "stage1"
    /\ \E r \in readPsd(buffer[1], 2), env \in CanvasEnvs :
          EndStage(2, r, Stage1Try(r, env.has2d, env.fault))

Stage2 ==
    /\ pc = "stage2"
    /\ \E r \in readPsd(buffer[1], 3) : EndStage(3, r, Stage2Try(r))

Stage3 ==
    /\ pc = "stage3"
    /\ \E r \in readPsd(buffer[1], 4) : EndStage(4, r, Stage3Try(r))

\* the throw that follows the four stages
Unsupported ==
    /\ pc = "exhausted"
    /\ error' = Some(ERR_UNSUPPORTED)
    /\ pc' = "failed"
    /\ UNCHANGED <<buffer, attempts, log, result, parsed, input, output, viewer, compressor>>

Next ==
    \/ ReadBuffer
    \/ ReadRejects
    \/ CheckSignature
    \/ Stage0
    \/ Stage1
    \/ Stage2
    \/ Stage3
    \/ Unsupported

Spec == Init /\ [][Next]_vars

--------------------------------------------------------------------------
(* Properties of renderPSDToCanvas *)

Failed(a) == a.outcome \in {"parse-threw", "surface-threw", "no-surface"}

\* the buffer's first four bytes are the bytes h
StartsWith(b, h) == Len(b) >= 4 /\ SubSeq(b, 1, 4) = h

\* C1: the stages are attempted strictly in the order raw-data,
\* high-fidelity, safe-mode, composite: the i-th attempt of an invocation is
\* the i-th stage (so none is attempted twice or out of turn), every attempt
\* but the last one failed to yield a surface (so a stage is attempted only
\* after its predecessor was attempted and failed, and none after a success),
\* and a result exists only when the last attempt yielded it.
C1_StageOrder ==
    /\ Len(attempts) <= Len(RenderStage)
    /\ \A i \in 1..Len(attempts) : attempts[i].stage = RenderStage[i]
    /\ \A i \in 1..(Len(attempts) - 1) : Failed(attempts[i])
    /\ (result # None) = (attempts # <<>> /\ attempts[Len(attempts)].outcome = "ok")

\* C1 witness: the composite stage was attempted, after the three before it
C1_Witness ==
    /\ Len(attempts) = 4
    /\ attempts[4].stage = "composite"
    /\ attempts[4].outcome = "ok"

\* C2: a returned result names the stage whose own parse produced the
\* returned surface, that stage is the last one attempted, and every stage
\* before it failed in the same invocation.
C2_StageReported ==
    result # None =>
        LET r == result[1] IN
        /\ r.canvas.from \in 1..Len(RenderStage)
        /\ r.stage = RenderStage[r.canvas.from]
        /\ r.canvas.from = Len(attempts)
        /\ parsed # None /\ parsed[1].from = r.canvas.from
        /\ \A i \in 1..(Len(attempts) - 1) : Failed(attempts[i])

\* C2 witness: a result of the safe-mode stage, the third tried
C2_Witness ==
    /\ result # None
    /\ result[1].stage = "safe-mode"
    /\ result[1].canvas.from = 3

\* C3: the terminal 'Unsupported PSD structure' error is raised exactly
\* when the signature check let the input through and all four stages were
\* attempted and failed; never with a stage unattempted.
C3_TerminalError ==
    /\ error = Some(ERR_UNSUPPORTED) =>
          /\ pc = "failed"
          /\ buffer # None
          /\ ~(Len(buffer[1]) >= 4 /\ ~StartsWith(buffer[1], Byte8BPS))
          /\ Len(attempts) = 4
          /\ \A i \in 1..4 : Failed(attempts[i])
    /\ (pc \in {"failed", "returned"} /\ Len(attempts) = 4
          /\ \A i \in 1..4 : Failed(attempts[i]))
       => error = Some(ERR_UNSUPPORTED)

\* C3 witness: the terminal error raised for a buffer with the PSD signature
C3_Witness ==
    /\ error = Some(ERR_UNSUPPORTED)
    /\ StartsWith(buffer[1], Byte8BPS)
    /\ attempts[4].outcome = "no-surface"

\* C4: a buffer whose first four bytes are the PDF signature ends in the
\* wrong-tool error, which is not the invalid-signature error, with no stage
\* attempted.
C4_WrongTool ==
    (buffer # None /\ pc # "signature" /\ StartsWith(buffer[1], BytePDF)) =>
        /\ error = Some(ERR_WRONG_TOOL)
        /\ ERR_WRONG_TOOL # ERR_INVALID_SIGNATURE
        /\ ERR_WRONG_TOOL # ERR_UNSUPPORTED
        /\ attempts = <<>>
        /\ result = None
        /\ pc = "failed"

\* C4 witness: a buffer that is exactly '%PDF' was rejected
C4_Witness ==
    /\ buffer # None
    /\ Len(buffer[1]) = 4
    /\ StartsWith(buffer[1], BytePDF)
    /\ pc = "failed"

\* C5 (as claimed): a buffer of any length, 0 to 3 included, whose first four
\* bytes are neither the PSD nor the PDF signature attempts no stage and
\* ends in the invalid-signature error.
C5_InvalidSignatureAnyLength ==
    (buffer # None /\ pc # "signature"
        /\ ~StartsWith(buffer[1], Byte8BPS) /\ ~StartsWith(buffer[1], BytePDF)) =>
        /\ attempts = <<>>
        /\ result = None
        /\ pc \in {"failed", "returned"} => error = Some(ERR_INVALID_SIGNATURE)

ThreeErrors == {ERR_WRONG_TOOL, ERR_INVALID_SIGNATURE, ERR_UNSUPPORTED}

\* C6 (as claimed): the only errors renderPSDToCanvas raises are the
\* wrong-tool, the invalid-signature and the terminal error.
C6_OnlyThreeErrors ==
    error # None => error[1] \in ThreeErrors

\* C6 (amended): once file.arrayBuffer() has resolved, the only errors
\* raised are those three, and a stage that threw (in the parser or while the
\* surface was built) was followed by the next stage or, after the fourth, by
\* the terminal error; the one other error is the rejection of
\* file.arrayBuffer() itself, raised before any stage.
C6_StageFailuresAbsorbed ==
    /\ (error # None /\ buffer # None) => error[1] \in ThreeErrors
    /\ (error # None /\ buffer = None) => (error = Some(ERR_READ) /\ attempts = <<>>)
    /\ \A i \in 1..Len(attempts) :
          attempts[i].outcome \in {"parse-threw", "surface-threw"} =>
             \/ i < Len(attempts)
             \/ /\ pc = <<"stage1", "stage2", "stage3", "exhausted">>[i]
                /\ error = None
             \/ /\ i = 4
                /\ pc = "failed"
                /\ error = Some(ERR_UNSUPPORTED)

\* C6 witness: building the surface threw in one stage and a later stage
\* returned a result
C6_Witness ==
    /\ result # None
    /\ \E i \in 1..Len(attempts) : attempts[i].outcome = "surface-threw"
    /\ \E i \in 1..Len(attempts) : attempts[i].outcome = "parse-threw"

\* the layer at index path p of a layer list
RECURSIVE LayerAt(_, _)
LayerAt(list, p) ==
    IF Len(p) = 1 THEN list[p[1]]
    ELSE LayerAt(list[p[1]].children[1], SubSeq(p, 2, Len(p)))

\* the layer list of a document (empty when it has none)
LayersOf(psd) == IF psd.children = None THEN <<>> ELSE psd.children[1]

\* the document carries pixels: a merged image, or a layer with a pixel plane
HasPixelSource(psd) ==
    \/ psd.imageData # None
    \/ psd.canvas # None
    \/ \E p \in Positions(LayersOf(psd)) :
          LET l == LayerAt(LayersOf(psd), p) IN l.imageData # None \/ l.canvas # None

\* C7 (as claimed): in every stage a result is returned only for a document
\* with a width, a height and a pixel source.
C7_SuccessNeedsSizeAndPixels ==
    result # None =>
        /\ parsed[1].width # 0
        /\ parsed[1].height # 0
        /\ HasPixelSource(parsed[1])

\* what the code of a stage requires of the document it parsed
StageRequires(stage, psd) ==
    CASE stage = "raw-data" ->
            /\ psd.width # 0
            /\ psd.height # 0
            /\ (psd.imageData # None \/ Len(LayersOf(psd)) > 0)
      [] stage = "high-fidelity" ->
            \/ psd.canvas # None
            \/ (psd.width # 0 /\ psd.height # 0 /\ Len(LayersOf(psd)) > 0)
      [] stage \in {"safe-mode", "composite"} -> psd.canvas # None

\* C7 (amended): a stage returns a result only if the document it parsed
\* meets that stage's condition: raw-data needs a width, a height and a merged
\* image or a non-empty layer list; high-fidelity needs a merged canvas, or a
\* width, a height and a non-empty layer list; safe-mode and composite need a
\* merged canvas.  A parse that returned without a usable surface is followed
\* by the next stage (or, after the fourth, by the terminal error).
C7_StageRequirements ==
    /\ result # None => StageRequires(result[1].stage, parsed[1])
    /\ \A i \in 1..Len(attempts) :
          attempts[i].outcome = "no-surface" =>
             \/ i < Len(attempts)
             \/ pc = <<"stage1", "stage2", "stage3", "exhausted">>[i]
             \/ (i = 4 /\ pc = "failed" /\ error = Some(ERR_UNSUPPORTED))

\* C7 witness: the high-fidelity stage returned the merged canvas of a
\* document that has no width
C7_Witness ==
    /\ result # None
    /\ result[1].stage = "high-fidelity"
    /\ parsed[1].width = 0
    /\ parsed[1].height # 0

\* C8: layerCount of a result is the number of nodes (leaves and groups at
\* every depth, hidden and adjustment layers included) of the layer tree of
\* the document the returning stage parsed; 0 for a document with no layers.
C8_LayerCount ==
    result # None => result[1].layerCount = NodeCount(LayersOf(parsed[1]))

\* C8 witness: a result for a document whose one top-level layer is a hidden
\* group holding one layer: two nodes, neither painted
C8_Witness ==
    /\ result # None
    /\ Len(LayersOf(parsed[1])) = 1
    /\ parsed[1].children[1][1].hidden
    /\ parsed[1].children[1][1].children # None
    /\ Len(parsed[1].children[1][1].children[1]) = 1
    /\ result[1].layerCount = 2

C10_Dimensions ==
    result # None =>
        /\ result[1].width = parsed[1].width
        /\ result[1].height = parsed[1].height
        /\ result[1].canvas.width = parsed[1].width
        /\ result[1].canvas.height = parsed[1].height

\* C10 witness: a raw-data result built from the merged image of a document
\* 1 wide and 2 high
C10_Witness ==
    /\ result # None
    /\ result[1].stage = "raw-data"
    /\ parsed[1].imageData # None
    /\ result[1].width = 1
    /\ result[1].height = 2
    /\ result[1].canvas.width = 1
    /\ result[1].canvas.height = 2


--------------------------------------------------------------------------
(* The compositors on their own: renderLayersRaw and renderLayersCanvas    *)
(* called on a fresh context with a layer list.  Every pixel plane and     *)
(* canvas of the list carries, as its owner (from), the position of its    *)
(* layer in the list, so that a paint call names the layer it drew.        *)

\* most layers (groups included) in a layer list given to a compositor
MaxLayers == 3

\* the 1x1 pixels of a layer, as a raw plane and as a canvas
Plane == <<Some(PixelData(4, 1, 1, <<>>)), Some(ParserCanvas(1, 1, <<>>))>>

\* the leaves of the lists: with pixels and visible, hidden or adjustment;
\* visible without pixels; visible with an empty plane; and visible with
\* pixels and a child list that is present and empty
PlainLeaves ==
    { Layer(FALSE, FALSE, None, Plane[1], Plane[2], None, None, None, None),
      Layer(TRUE, FALSE, None, Plane[1], Plane[2], None, None, None, None),
      Layer(FALSE, TRUE, None, Plane[1], Plane[2], None, None, None, None),
      Layer(FALSE, FALSE, None, None, None, None, None, None, None),
      Layer(FALSE, FALSE, None, Some(PixelData(0, 0, 0, <<>>)), None,
            None, None, None, None),
      Layer(FALSE, FALSE, Some(<<>>), Plane[1], Plane[2], None, None, None, None) }

\* the groups (children present, no pixels of their own) over the lists chs:
\* visible, hidden or adjustment
PlainGroups(chs) ==
    { Layer(f[1], f[2], Some(ch), None, None, None, None, None, None) :
        f \in { <<FALSE, FALSE>>, <<TRUE, FALSE>>, <<FALSE, TRUE>> },
        ch \in chs }

RECURSIVE PlainBySize(_, _)
\* the layer lists by their number of nodes, up to n: bySize[s + 1] is the
\* set of the lists of exactly s nodes, built from the sets of fewer nodes
PlainBySize(n, bySize) ==
    IF Len(bySize) > n THEN bySize
    ELSE LET s == Len(bySize)
             NodesOf(k) == (IF k = 1 THEN PlainLeaves ELSE {}) \cup PlainGroups(bySize[k])
         IN  PlainBySize(n, Append(bySize,
                 UNION { { <<nd>> \o rest : nd \in NodesOf(k), rest \in bySize[s - k + 1] }
                         : k \in 1..s }))

RECURSIVE Placed(_, _)
\* the list with every layer's pixels owned by the layer's position, and
\* with offsets that depend on the position: left is missing on a first
\* sibling, top is missing at the top level
Placed(list, prefix) ==
    [i \in 1..Len(list) |->
        LET l == list[i]
            p == prefix \o <<i>>
        IN  [l EXCEPT !.imageData = IF @ = None THEN None
                                    ELSE Some([@[1] EXCEPT !.from = p]),
                      !.canvas = IF @ = None THEN None
                                 ELSE Some([@[1] EXCEPT !.from = p]),
                      !.children = IF @ = None THEN None ELSE Some(Placed(@[1], p)),
                      !.left = IF i = 1 THEN None ELSE Some(i - 1),
                      !.top = IF prefix = <<>> THEN None ELSE Some(Len(prefix))]]

\* the layer lists that vary in structure: those of exactly n nodes
StructureInputs(n) ==
    { Placed(f, <<>>) : f \in PlainBySize(n, << { <<>> } >>)[n + 1] }

\* the blend-mode tags of the inputs: none, the empty tag, the keys of the
\* table and a tag that is no key
BlendTags ==
    {None, Some(""), Some("future mode")} \cup { Some(k) : k \in BlendModeKeys }

\* a visible leaf with pixels, an opacity and a blend-mode tag
StyledLeaf(opacity, blendMode) ==
    Layer(FALSE, FALSE, None, Some(PixelData(4, 1, 1, <<>>)),
          Some(ParserCanvas(1, 1, <<>>)), opacity, blendMode, None, None)

\* the layer lists that vary in opacity and blend mode: one layer of every
\* opacity and tag, and two layers of a few
StyleInputs ==
    { Placed(<< StyledLeaf(o, b) >>, <<>>) :
        o \in {None} \cup { Some(v) : v \in 0..255 }, b \in BlendTags }
    \cup
    { Placed(<< StyledLeaf(o[1], b[1]), StyledLeaf(o[2], b[2]) >>, <<>>) :
        o \in { <<x, y>> : x, y \in {None, Some(0), Some(128), Some(255)} },
        b \in { <<x, y>> : x, y \in {None, Some("multiply"), Some("linear dodge")} } }

\* what a call on its own leaves in output
Call(name, value) == [call |-> name, value |-> value]

InitCompositor ==
    /\ pc = "call"
    /\ buffer = None
    /\ attempts = <<>>
    /\ log = <<>>
    /\ result = None
    /\ error = None
    /\ parsed = None
    /\ \/ \E n \in 0..MaxLayers : \E layers \in StructureInputs(n) : input = Some(layers)
       \/ \E layers \in StyleInputs : input = Some(layers)
    /\ output = <<>>
    /\ viewer = None
    /\ compressor = None

\* renderLayersRaw(ctx, layers) on a fresh context
RenderRaw ==
    /\ pc = "call"
    /\ \E has2d \in BOOLEAN :
          output' = << Call("renderLayersRaw",
                            renderLayersRaw(NewContext, input[1], has2d)) >>
    /\ pc' = "done"
    /\ UNCHANGED <<buffer, attempts, log, result, error, parsed, input, viewer, compressor>>

\* renderLayersCanvas(ctx, layers) on a fresh context
RenderCanvas ==
    /\ pc = "call"
    /\ output' = << Call("renderLayersCanvas", renderLayersCanvas(NewContext, input[1])) >>
    /\ pc' = "done"
    /\ UNCHANGED <<buffer, attempts, log, result, error, parsed, input, viewer, compressor>>

NextCompositor ==
    \/ RenderRaw
    \/ RenderCanvas

SpecCompositor == InitCompositor /\ [][NextCompositor]_vars


--------------------------------------------------------------------------
(* Claims about the compositors *)

\* the paint calls a compositor call made, in order
PaintsOf(c) == c.value.pixels

\* the position of the layer whose pixels a drawImage call drew
PathOf(op) == op.src[1].from

\* position p comes after position q in the stacking order: where the two
\* first part, p is at the later sibling
After(p, q) ==
    \E k \in 1..Min(Len(p), Len(q)) :
        /\ \A m \in 1..(k - 1) : p[m] = q[m]
        /\ p[k] > q[k]

\* C11: both compositors paint in reverse list order: of two paints made on
\* the one surface, the earlier one is of the layer that, where the two
\* layers' positions first part, is at or under the later sibling.  So all
\* the paints a sibling causes, its descendants' included, come before any
\* paint of a sibling before it in the list, and a group's children are
\* painted at the group's place in that order.
C11_ReverseOrder ==
    \A k \in 1..Len(output) :
        output[k].call \in {"renderLayersRaw", "renderLayersCanvas"} =>
        LET px == PaintsOf(output[k]) IN
        \A a, b \in 1..Len(px) : a < b => After(PathOf(px[a]), PathOf(px[b]))

\* a call painted a group's child and, after it, a sibling before the group;
\* and a call painted two children of one group
C11_Witness ==
    /\ output # <<>>
    /\ LET px == PaintsOf(output[1]) IN
       \/ /\ Len(px) = 2
          /\ PathOf(px[1]) = <<2, 1>>
          /\ PathOf(px[2]) = <<1>>
          /\ output[1].call = "renderLayersRaw"
       \/ /\ Len(px) = 2
          /\ PathOf(px[1]) = <<1, 2>>
          /\ PathOf(px[2]) = <<1, 1>>
          /\ output[1].call = "renderLayersCanvas"

\* the positions of the layers on the way from the top level to position p,
\* p itself included
Chain(p) == { SubSeq(p, 1, k) : k \in 1..Len(p) }

\* C12: in both compositors no paint is of a hidden or adjustment layer, nor
\* of a layer under a hidden or adjustment group, whatever its own flags.
C12_HiddenNeverPainted ==
    \A k \in 1..Len(output) :
        output[k].call \in {"renderLayersRaw", "renderLayersCanvas"} =>
        LET px == PaintsOf(output[k]) IN
        \A a \in 1..Len(px) :
            \A q \in Chain(PathOf(px[a])) :
                LET l == LayerAt(input[1], q) IN ~l.hidden /\ ~l.adjustment

\* a compositor ran on a list whose second layer is a hidden or adjustment
\* group with a visible child that has pixels, and painted the first layer only
C12_Witness ==
    /\ output # <<>>
    /\ output[1].call \in {"renderLayersRaw", "renderLayersCanvas"}
    /\ Len(input[1]) = 2
    /\ LET g == input[1][2] IN
       /\ g.hidden \/ g.adjustment
       /\ g.children # None
       /\ Len(g.children[1]) = 1
       /\ ~g.children[1][1].hidden
       /\ ~g.children[1][1].adjustment
       /\ g.children[1][1].imageData # None
       /\ g.children[1][1].canvas # None
    /\ Len(PaintsOf(output[1])) = 1
    /\ PathOf(PaintsOf(output[1])[1]) = <<1>>

\* the layer carries the pixel plane the compositor of call c reads
HasPlane(l, c) ==
    IF c.call = "renderLayersRaw"
    THEN l.imageData # None /\ l.imageData[1].width > 0 /\ l.imageData[1].height > 0
    ELSE l.canvas # None

\* C13 (as claimed): in a manual composite every layer that is not hidden,
\* is no adjustment layer, has no children (the child sequence absent or
\* empty), carries a pixel plane and has only visible ancestors is painted
\* exactly once, at (left, top) with a missing left or top taken as 0.
C13_LeafPaintedOnce ==
    \A k \in 1..Len(output) :
        output[k].call \in {"renderLayersRaw", "renderLayersCanvas"} =>
        LET px == PaintsOf(output[k]) IN
        \A p \in Positions(input[1]) :
            LET l == LayerAt(input[1], p) IN
            ( /\ \A q \in Chain(p) : ~LayerAt(input[1], q).hidden
                                     /\ ~LayerAt(input[1], q).adjustment
              /\ l.children = None \/ l.children = Some(<<>>)
              /\ HasPlane(l, output[k]) )
            => /\ Cardinality({ a \in 1..Len(px) : PathOf(px[a]) = p }) = 1
               /\ \A a \in 1..Len(px) :
                     PathOf(px[a]) = p =>
                        /\ px[a].x = (IF l.left = None THEN 0 ELSE l.left[1])
                        /\ px[a].y = (IF l.top = None THEN 0 ELSE l.top[1])

\* the layer a paint call of the call on input drew
Drawn(op) == LayerAt(input[1], PathOf(op))

\* C14: in both compositors a painted layer whose blend-mode tag is absent or
\* no key of BLEND_MODE_MAP is drawn with exactly 'source-over', as a layer
\* tagged 'normal' is.
C14_UnknownBlendIsSourceOver ==
    \A k \in 1..Len(output) :
        output[k].call \in {"renderLayersRaw", "renderLayersCanvas"} =>
        LET px == PaintsOf(output[k]) IN
        \A a \in 1..Len(px) :
            LET tag == Drawn(px[a]).blendMode IN
            (tag = None \/ tag[1] \notin BlendModeKeys \/ tag = Some("normal"))
            => px[a].gco = "source-over"

\* the raw compositor painted a layer tagged with a mode that is no key
C14_Witness ==
    /\ output # <<>>
    /\ output[1].call = "renderLayersRaw"
    /\ Len(PaintsOf(output[1])) = 1
    /\ Drawn(PaintsOf(output[1])[1]).blendMode = Some("future mode")

\* the modes the specification lists as implemented, each with the canvas
\* operation that is its own blend function
ImplementedModes ==
    { <<"normal", "source-over">>, <<"multiply", "multiply">>, <<"screen", "screen">>,
      <<"overlay", "overlay">>, <<"darken", "darken">>, <<"lighten", "lighten">>,
      <<"color dodge", "color-dodge">>, <<"color burn", "color-burn">>,
      <<"hard light", "hard-light">>, <<"soft light", "soft-light">>,
      <<"difference", "difference">>, <<"exclusion", "exclusion">>, <<"hue", "hue">>,
      <<"saturation", "saturation">>, <<"color", "color">>,
      <<"luminosity", "luminosity">> }

\* the modes drawn with the operation of another, nearby mode
ApproximatedModes ==
    { <<"linear dodge", "color-dodge">>, <<"linear burn", "color-burn">>,
      <<"vivid light", "hard-light">>, <<"linear light", "hard-light">>,
      <<"pin light", "hard-light">>, <<"hard mix", "hard-light">>,
      <<"subtract", "difference">>, <<"divide", "difference">>,
      <<"darker color", "darken">>, <<"lighter color", "lighten">> }

\* the tags a set of pairs lists
TagsOf(pairs) == { m[1] : m \in pairs }

\* the operation a set of pairs gives for a tag it lists
OperationOf(pairs, tag) == (CHOOSE m \in pairs : m[1] = tag)[2]

\* C15 (as claimed): a painted layer tagged with one of the implemented modes
\* is drawn with that mode's own operation, and a layer with any other tag
\* (linear dodge, vivid light, subtract, darker color, ...) as normal.
C15_OnlyImplementedModes ==
    \A k \in 1..Len(output) :
        output[k].call \in {"renderLayersRaw", "renderLayersCanvas"} =>
        LET px == PaintsOf(output[k]) IN
        \A a \in 1..Len(px) :
            LET tag == Drawn(px[a]).blendMode IN
            px[a].gco = IF tag # None /\ tag[1] \in TagsOf(ImplementedModes)
                        THEN OperationOf(ImplementedModes, tag[1])
                        ELSE "source-over"

\* C15 (amended): a painted layer tagged with one of the implemented modes is
\* drawn with that mode's own operation; one tagged linear dodge, linear
\* burn, vivid light, linear light, pin light, hard mix, subtract, divide,
\* darker color or lighter color is drawn with the operation of the nearby
\* mode (color-dodge, color-burn, hard-light, hard-light, hard-light,
\* hard-light, difference, difference, darken, lighten); every other tag, and
\* none, as normal.
C15_ImplementedOrApproximated ==
    \A k \in 1..Len(output) :
        output[k].call \in {"renderLayersRaw", "renderLayersCanvas"} =>
        LET px == PaintsOf(output[k]) IN
        \A a \in 1..Len(px) :
            LET tag == Drawn(px[a]).blendMode IN
            px[a].gco = IF tag # None /\ tag[1] \in TagsOf(ImplementedModes)
                        THEN OperationOf(ImplementedModes, tag[1])
                        ELSE IF tag # None /\ tag[1] \in TagsOf(ApproximatedModes)
                        THEN OperationOf(ApproximatedModes, tag[1])
                        ELSE "source-over"

\* the canvas compositor painted a layer tagged 'linear dodge' after one
\* tagged 'multiply'
C15_Witness ==
    /\ output # <<>>
    /\ output[1].call = "renderLayersCanvas"
    /\ Len(PaintsOf(output[1])) = 2
    /\ Drawn(PaintsOf(output[1])[1]).blendMode = Some("multiply")
    /\ Drawn(PaintsOf(output[1])[2]).blendMode = Some("linear dodge")
    /\ PaintsOf(output[1])[2].gco = "color-dodge"

\* C16: the alpha multiplier of every paint is o/255 for the painted layer's
\* opacity o in 0..255, a value from 0 to 1 that is 0 exactly when o is 0
\* and 1 exactly when o is 255, and 1 for a layer without an opacity; the
\* multiplier of one paint is not carried to the next one, nor left on the
\* context.  (Multipliers are numerators over 255.)
C16_AlphaIsOpacity ==
    \A k \in 1..Len(output) :
        output[k].call \in {"renderLayersRaw", "renderLayersCanvas"} =>
        LET px == PaintsOf(output[k]) IN
        /\ \A a \in 1..Len(px) :
              LET o == Drawn(px[a]).opacity IN
              /\ px[a].alpha \in 0..255
              /\ o = None => px[a].alpha = 255
              /\ o # None => /\ px[a].alpha = o[1]
                             /\ (px[a].alpha = 0) = (o[1] = 0)
                             /\ (px[a].alpha = 255) = (o[1] = 255)
        /\ output[k].value.globalAlpha = 255
        /\ output[k].value.saved = <<>>

\* a compositor painted a layer of opacity 0 and then one without an opacity
C16_Witness ==
    /\ output # <<>>
    /\ Len(PaintsOf(output[1])) = 2
    /\ Drawn(PaintsOf(output[1])[1]).opacity = Some(0)
    /\ PaintsOf(output[1])[1].alpha = 0
    /\ Drawn(PaintsOf(output[1])[2]).opacity = None
    /\ PaintsOf(output[1])[2].alpha = 255

--------------------------------------------------------------------------
(* Claims about the stages' configurations and surfaces *)

\* C17: every stage parses with its own fixed options: useImageData is asked
\* for in the raw-data stage and in no other, skipLinkedFilesData in exactly
\* the safe-mode and composite stages, skipLayerImageData in exactly the
\* composite stage, skipThumbnail in all four; and the surface the composite
\* stage returns holds no paint of an individual layer.
C17_StageOptions ==
    /\ \A i \in 1..Len(attempts) :
          LET a == attempts[i] IN
          /\ a.options.useImageData = (a.stage = "raw-data")
          /\ a.options.skipLinkedFilesData = (a.stage \in {"safe-mode", "composite"})
          /\ a.options.skipLayerImageData = (a.stage = "composite")
          /\ a.options.skipThumbnail
    /\ (result # None /\ result[1].stage = "composite") =>
          \A k \in 1..Len(result[1].canvas.pixels) :
              result[1].canvas.pixels[k].call # "drawImage"

\* all four stages parsed, and the composite stage returned a surface for a
\* document that has layers
C17_Witness ==
    /\ Len(attempts) = 4
    /\ result # None
    /\ result[1].stage = "composite"
    /\ result[1].layerCount > 0

\* C18 (as claimed): a surface returned by the raw-data or the high-fidelity
\* stage was made by compositing the layers' pixels one by one: every paint
\* on it is a drawImage of a layer, and none is the document's merged image.
C18_AlwaysManualComposite ==
    (result # None /\ result[1].stage \in {"raw-data", "high-fidelity"}) =>
        \A k \in 1..Len(result[1].canvas.pixels) :
            result[1].canvas.pixels[k].call = "drawImage"

\* the positions of the layers of a document that a manual composite paints:
\* leaves with pixels of the stage's kind, no layer on the way to them hidden
\* or an adjustment layer
Paintable(psd, raw) ==
    { p \in Positions(LayersOf(psd)) :
        LET l == LayerAt(LayersOf(psd), p) IN
        /\ \A q \in Chain(p) : ~LayerAt(LayersOf(psd), q).hidden
                               /\ ~LayerAt(LayersOf(psd), q).adjustment
        /\ l.children = None
        /\ IF raw THEN l.imageData # None ELSE l.canvas # None }

\* the surface is a manual composite of the document: one drawImage for each
\* layer to paint, and nothing else
ManualComposite(canvas, psd, raw) ==
    /\ \A k \in 1..Len(canvas.pixels) : canvas.pixels[k].call = "drawImage"
    /\ Len(canvas.pixels) = Cardinality(Paintable(psd, raw))

\* C18 (amended): the raw-data stage returns the document's merged raw image
\* (psd.imageData put on a canvas) whenever the document has one, and a
\* manual composite of the layers' raw planes only when it has none; the
\* high-fidelity stage returns the document's merged canvas whenever there
\* is one, and a manual composite of the layers' canvases only when not.
C18_MergedImageFirst ==
    result # None =>
        LET r == result[1]
            psd == parsed[1]
        IN  /\ r.stage = "raw-data" =>
                  IF psd.imageData # None
                  THEN \A k \in 1..Len(r.canvas.pixels) :
                           r.canvas.pixels[k].call = "putImageData"
                  ELSE ManualComposite(r.canvas, psd, TRUE)
            /\ r.stage = "high-fidelity" =>
                  IF psd.canvas # None
                  THEN r.canvas = psd.canvas[1]
                  ELSE ManualComposite(r.canvas, psd, FALSE)

\* the raw-data stage returned the merged raw image of a document that has a
\* layer to paint as well
C18_Witness ==
    /\ result # None
    /\ result[1].stage = "raw-data"
    /\ parsed[1].imageData # None
    /\ Paintable(parsed[1], TRUE) # {}
    /\ Len(result[1].canvas.pixels) = 1
    /\ result[1].canvas.pixels[1].call = "putImageData"

--------------------------------------------------------------------------
(* The try blocks of the high-fidelity and the safe-mode stage, each run   *)
(* on the same parsed document                                             *)

InitStages ==
    /\ pc = "call"
    /\ buffer = None
    /\ attempts = <<>>
    /\ log = <<>>
    /\ result = None
    /\ error = None
    /\ parsed = None
    /\ \E d \in Documents1 : input = Some(d)
    /\ output = <<>>
    /\ viewer = None
    /\ compressor = None

\* whether the call named has been made
Called(name) == \E k \in 1..Len(output) : output[k].call = name

\* the try block of stage 1 after readPsd returned the document
TryHighFidelity ==
    /\ pc = "call"
    /\ ~Called("high-fidelity")
    /\ \E env \in CanvasEnvs :
          output' = Append(output, Call("high-fidelity",
                                        Stage1Try(Returned(input), env.has2d, env.fault)))
    /\ UNCHANGED <<pc, buffer, attempts, log, result, error, parsed, input, viewer, compressor>>

\* the try block of stage 2 after readPsd returned the document
TrySafeMode ==
    /\ pc = "call"
    /\ ~Called("safe-mode")
    /\ output' = Append(output, Call("safe-mode", Stage2Try(Returned(input))))
    /\ UNCHANGED <<pc, buffer, attempts, log, result, error, parsed, input, viewer, compressor>>

NextStages ==
    \/ TryHighFidelity
    \/ TrySafeMode

SpecStages == InitStages /\ [][NextStages]_vars

\* C19 (as claimed): on the same document (the same merged canvas, the same
\* layer tree) the safe-mode stage yields a surface in exactly the cases the
\* high-fidelity stage does, the case of a manual composite of the layers'
\* canvases included.
C19_SafeModeAsHighFidelity ==
    \A j, k \in 1..Len(output) :
        (output[j].call = "high-fidelity" /\ output[k].call = "safe-mode") =>
            (output[j].value.kind = "ok") = (output[k].value.kind = "ok")

--------------------------------------------------------------------------
(* Claims about failed stages *)

\* C21: a failed stage leaves nothing in the result: the returned surface,
\* every layer painted on it, layerCount, width and height all come from the
\* document parsed by the one stage that succeeded, which is the last one
\* attempted; no surface of an earlier attempt is returned or painted on.
C21_OnlySucceedingStage ==
    result # None =>
        LET r == result[1]
            psd == parsed[1]
            n == Len(attempts)
        IN  /\ attempts[n].outcome = "ok"
            /\ \A i \in 1..(n - 1) : attempts[i].outcome # "ok"
            /\ psd.from = n
            /\ r.canvas.from = n
            /\ \A k \in 1..Len(r.canvas.pixels) :
                  LET op == r.canvas.pixels[k] IN
                  op.src # None => op.src[1].from = n
            /\ r.layerCount = NodeCount(LayersOf(psd))
            /\ r.width = (IF psd.width # 0 THEN psd.width ELSE r.canvas.width)
            /\ r.height = (IF psd.height # 0 THEN psd.height ELSE r.canvas.height)

\* the raw-data stage failed while it built a surface, and the high-fidelity
\* stage then returned a surface it composited from its own layers
C21_Witness ==
    /\ result # None
    /\ Len(attempts) = 2
    /\ attempts[1].outcome = "surface-threw"
    /\ result[1].stage = "high-fidelity"
    /\ Len(result[1].canvas.pixels) >= 1
    /\ result[1].canvas.pixels[1].call = "drawImage"

\* an attempt that ended by a thrown error
Threw(a) == a.outcome \in {"parse-threw", "surface-threw"}

\* the line that names the stage of the i-th attempt in the log
StageLogLine(i) ==
    CASE i = 1 -> "[PSD] Stage 0 failed:"
      [] i = 2 -> "[PSD] Stage 1 failed:"
      [] i = 3 -> "[PSD] Stage 2 failed:"
      [] i = 4 -> "[PSD] Stage 3 failed:"

\* C22 (as claimed): every attempt, of any of the four stages, that ended by
\* a thrown error has its line, naming the stage, in the log by the time
\* the attempt is over (before the next stage or the terminal error).
C22_EveryThrowLogged ==
    \A i \in 1..Len(attempts) :
        Threw(attempts[i]) => \E k \in 1..Len(log) : log[k] = StageLogLine(i)

--------------------------------------------------------------------------
(* Termination: an invocation of renderPSDToCanvas, or a compositor call   *)
(* on its own.  The promise of file.arrayBuffer() settles, and readPsd and *)
(* the canvas calls return or throw: a step that can be taken is taken.    *)

InitTermination == Init \/ InitCompositor

NextTermination ==
    \/ Next
    \/ NextCompositor

SpecTermination ==
    InitTermination /\ [][NextTermination]_vars

\* the invocation, or the call, is over
Terminated == pc \in {"returned", "failed", "done"}

\* the number of steps the invocation, or the call, can still take at most
Rank ==
    CASE pc = "read" -> 7
      [] pc = "signature" -> 6
      [] pc = "stage0" -> 5
      [] pc = "stage1" -> 4
      [] pc = "stage2" -> 3
      [] pc = "stage3" -> 2
      [] pc = "exhausted" -> 1
      [] pc = "call" -> 1
      [] Terminated -> 0

\* where an invocation or a compositor call stands: at most four parse
\* attempts; exactly one outcome at the end (a result or an error, never
\* both) and none before; a manual composite went through no more loop
\* iterations than the tree has nodes
Standing ==
    /\ Len(attempts) <= 4
    /\ pc = "returned" => (result # None /\ error = None)
    /\ pc = "failed" => (result = None /\ error # None)
    /\ ~Terminated => (result = None /\ error = None)
    /\ pc = "done" => /\ Len(output) = 1
                      /\ output[1].value.visits <= NodeCount(input[1])

\* C23: every invocation of renderPSDToCanvas comes to an end: each step
\* brings it nearer to the end (that each step is taken is the assumption
\* that the parser and canvas calls return or throw); it ends with exactly
\* one outcome after at most four parse attempts.  A manual composite comes
\* to an end having visited each node of the layer tree at most once.
C23_Terminates == [][Rank' < Rank /\ Standing /\ Standing']_vars

\* the terminal error after four attempts; and a composite that visited
\* all three nodes of a list that has a group
C23_Witness ==
    \/ pc = "failed" /\ Len(attempts) = 4
    \/ /\ pc = "done"
       /\ output[1].value.visits = 3
       /\ \E i \in 1..Len(input[1]) : input[1][i].children # None


--------------------------------------------------------------------------
(* Layers whose pixels are missing or unusable: the compositors called on  *)
(* flat lists of visible leaves                                            *)

\* the leaves by their pixels: a full plane and a canvas; neither; a plane of
\* no size; planes of zero width and of zero height; a plane of no bytes; a
\* plane of fewer bytes than its size asks for, and a canvas
PlaneLeaves ==
    { Layer(FALSE, FALSE, None, px[1], px[2], None, None, None, None) :
        px \in { Plane,
                 <<None, None>>,
                 <<Some(PixelData(0, 0, 0, <<>>)), None>>,
                 <<Some(PixelData(4, 0, 1, <<>>)), None>>,
                 <<Some(PixelData(4, 1, 0, <<>>)), None>>,
                 <<Some(PixelData(0, 1, 1, <<>>)), None>>,
                 <<Some(PixelData(2, 1, 1, <<>>)), Some(ParserCanvas(1, 1, <<>>))>> } }

RECURSIVE PlaneLists(_)
\* the lists of exactly n such leaves
PlaneLists(n) ==
    IF n = 0 THEN { <<>> }
    ELSE { <<l>> \o rest : l \in PlaneLeaves, rest \in PlaneLists(n - 1) }

InitPlanes ==
    /\ pc = "call"
    /\ buffer = None
    /\ attempts = <<>>
    /\ log = <<>>
    /\ result = None
    /\ error = None
    /\ parsed = None
    /\ \E n \in 0..MaxLayers : \E layers \in PlaneLists(n) :
          input = Some(Placed(layers, <<>>))
    /\ output = <<>>
    /\ viewer = None
    /\ compressor = None

SpecPlanes == InitPlanes /\ [][NextCompositor]_vars

\* the positions of the layers of a flat list that a compositor call has
\* pixels to paint from
WithPixels(layers, call) ==
    { <<i>> : i \in { j \in 1..Len(layers) :
                        IF call = "renderLayersRaw"
                        THEN /\ layers[j].imageData # None
                             /\ layers[j].imageData[1].width > 0
                             /\ layers[j].imageData[1].height > 0
                        ELSE layers[j].canvas # None } }

--------------------------------------------------------------------------
(* PSDViewerTool: the component's state and its handlers.  A call of       *)
(* renderPSDToCanvas is in flight from handleFileSelect's await until its  *)
(* promise settles; calls settle in any order.  Zoom, fullscreen and       *)
(* export are left out.                                                    *)

\* most calls of handleFileSelect in a run
MaxCalls == 3

\* the files the user picks from
Files == {"a.psd", "b.psd"}

\* one call of handleFileSelect: its file, where it stands (pending at the
\* await, resolved, rejected), and, as history, whether the user has pressed
\* the back button since it began
FileSelectCall(file) == [file |-> file, state |-> "pending", left |-> FALSE]

\* what renderPSDToCanvas(file) of call i resolves to
RenderOf(file, i) == [file |-> file, call |-> i]

InitViewer ==
    /\ pc = "viewer"
    /\ buffer = None
    /\ attempts = <<>>
    /\ log = <<>>
    /\ result = None
    /\ error = None
    /\ parsed = None
    /\ input = None
    /\ output = <<>>
    /\ viewer = Some([sourceFile |-> None, renderResult |-> None,
                      isProcessing |-> FALSE, toasts |-> <<>>, calls |-> <<>>])
    /\ compressor = None

\* handleFileSelect up to its await; the upload screen that calls it is
\* rendered only while sourceFile is null
HandleFileSelect ==
    /\ pc = "viewer"
    /\ viewer[1].sourceFile = None
    /\ Len(viewer[1].calls) < MaxCalls
    /\ \E file \in Files :
          viewer' = Some([viewer[1] EXCEPT !.sourceFile = Some(file),
                                           !.isProcessing = TRUE,
                                           !.renderResult = None,
                                           !.calls = Append(@, FileSelectCall(file))])
    /\ UNCHANGED <<pc, buffer, attempts, log, result, error, parsed, input, output, compressor>>

\* the back button, rendered whenever sourceFile is set
BackButton ==
    /\ pc = "viewer"
    /\ viewer[1].sourceFile # None
    /\ viewer' = Some([viewer[1] EXCEPT
                         !.sourceFile = None,
                         !.renderResult = None,
                         !.calls = [i \in 1..Len(@) |->
                                       IF @[i].state = "pending"
                                       THEN [@[i] EXCEPT !.left = TRUE] ELSE @[i]]])
    /\ UNCHANGED <<pc, buffer, attempts, log, result, error, parsed, input, output, compressor>>

\* call i of handleFileSelect after its await, renderPSDToCanvas having
\* returned: the try block and finally
RenderResolves(i) ==
    /\ pc = "viewer"
    /\ viewer[1].calls[i].state = "pending"
    /\ viewer' = Some([viewer[1] EXCEPT
                         !.renderResult = Some(RenderOf(viewer[1].calls[i].file, i)),
                         !.isProcessing = FALSE,
                         !.calls[i].state = "resolved"])
    /\ UNCHANGED <<pc, buffer, attempts, log, result, error, parsed, input, output, compressor>>

\* call i of handleFileSelect after its await, renderPSDToCanvas having
\* thrown: the catch block and finally
RenderRejects(i) ==
    /\ pc = "viewer"
    /\ viewer[1].calls[i].state = "pending"
    /\ viewer' = Some([viewer[1] EXCEPT
                         !.toasts = Append(@, [title |-> "Load Error", call |-> i]),
                         !.sourceFile = None,
                         !.isProcessing = FALSE,
                         !.calls[i].state = "rejected"])
    /\ UNCHANGED <<pc, buffer, attempts, log, result, error, parsed, input, output, compressor>>

NextViewer ==
    \/ HandleFileSelect
    \/ BackButton
    \/ \E i \in 1..MaxCalls : i <= Len(viewer[1].calls) /\ RenderResolves(i)
    \/ \E i \in 1..MaxCalls : i <= Len(viewer[1].calls) /\ RenderRejects(i)

SpecViewer == InitViewer /\ [][NextViewer]_vars


--------------------------------------------------------------------------
(* Claims about PSDViewerTool *)

\* call i settles in this step
Settles(i, how) ==
    /\ i <= Len(viewer[1].calls)
    /\ viewer[1].calls[i].state = "pending"
    /\ viewer'[1].calls[i].state = how

\* C25: a render that is cancelled goes no further: once the user has left
\* the document a call of renderPSDToCanvas was started for, that call does
\* not go on to return a result.
C25_CancelledRenderReturnsNothing ==
    [][\A i \in 1..MaxCalls :
          (i <= Len(viewer[1].calls) /\ viewer[1].calls[i].left)
              => ~Settles(i, "resolved")]_vars

\* C28: a render result that is shown is the result of the call made for
\* the file now selected, which is the last call made.
C28_ResultOfCurrentFile ==
    viewer[1].renderResult # None =>
        /\ viewer[1].sourceFile = Some(viewer[1].renderResult[1].file)
        /\ viewer[1].renderResult[1].call = Len(viewer[1].calls)

\* C29: a call of handleFileSelect ends with isProcessing false; where the
\* render failed, with the message shown, no file selected and no result;
\* where it succeeded, with the result of the render.
C29_CallEnds ==
    [][\A i \in 1..MaxCalls :
          /\ Settles(i, "rejected") =>
                /\ ~viewer'[1].isProcessing
                /\ Len(viewer'[1].toasts) = Len(viewer[1].toasts) + 1
                /\ viewer'[1].sourceFile = None
                /\ viewer'[1].renderResult = None
          /\ Settles(i, "resolved") =>
                /\ ~viewer'[1].isProcessing
                /\ viewer'[1].renderResult = Some(RenderOf(viewer[1].calls[i].file, i))]_vars



--------------------------------------------------------------------------
(* ImageCompressorTool: the state the size estimate depends on, and the    *)
(* handlers that touch it.  An estimate is requested by the effect on      *)
(* [bitmap, quality]; it waits on a timer, then compresses, then writes.   *)
(* Decoding the selected file is taken as one step with the selection.     *)

\* highest value of the generation counter estimateGen in a run
MaxGen == 3

\* useState(80), and the 80 that handleFileSelect and reset set
DefaultQuality == 80

\* the positions of the quality slider that are tried
Qualities == {10, DefaultQuality}

\* the images the user picks from
Bitmaps == {"x.png", "y.png"}

\* (await applyLossyCompression(bmp, q)).size: some size that depends on the
\* image and on the quality
BlobSize(bmp, q) == (IF bmp = "x.png" THEN 100 ELSE 200) + q

InitCompressor ==
    /\ pc = "compressor"
    /\ buffer = None
    /\ attempts = <<>>
    /\ log = <<>>
    /\ result = None
    /\ error = None
    /\ parsed = None
    /\ input = None
    /\ output = <<>>
    /\ viewer = None
    /\ compressor = Some([file |-> None, bitmap |-> None, originalSize |-> 0,
                          quality |-> DefaultQuality, estimatedSize |-> 0,
                          estimateGen |-> 0, estimateTimer |-> None,
                          compressing |-> {}])

\* estimateSize(bmp, q) on component state c: the pending timer is cleared,
\* the generation goes up, and a timer is set for the new estimate
estimateSize(c, bmp, q) ==
    [c EXCEPT !.estimateGen = @ + 1,
              !.estimateTimer = Some([gen |-> c.estimateGen + 1, bmp |-> bmp, q |-> q])]

\* handleFileSelect with the image decoded, and the effect that follows the
\* change of bitmap; the upload screen is rendered only while file is null
CompressorFileSelect ==
    /\ pc = "compressor"
    /\ compressor[1].file = None
    /\ compressor[1].estimateGen < MaxGen
    /\ \E bmp \in Bitmaps :
          compressor' = Some(estimateSize([compressor[1] EXCEPT !.file = Some(bmp),
                                                                !.bitmap = Some(bmp),
                                                                !.originalSize = 1000,
                                                                !.quality = DefaultQuality],
                                          bmp, DefaultQuality))
    /\ UNCHANGED <<pc, buffer, attempts, log, result, error, parsed, input, output, viewer>>

\* the slider moved to another position, and the effect that follows the
\* change of quality
SetQuality ==
    /\ pc = "compressor"
    /\ compressor[1].bitmap # None
    /\ compressor[1].estimateGen < MaxGen
    /\ \E q \in Qualities \ {compressor[1].quality} :
          compressor' = Some(estimateSize([compressor[1] EXCEPT !.quality = q],
                                          compressor[1].bitmap[1], q))
    /\ UNCHANGED <<pc, buffer, attempts, log, result, error, parsed, input, output, viewer>>

\* the timer of estimateSize fires: applyLossyCompression begins
TimerFires ==
    /\ pc = "compressor"
    /\ compressor[1].estimateTimer # None
    /\ compressor' = Some([compressor[1] EXCEPT
                             !.estimateTimer = None,
                             !.compressing = @ \cup {compressor[1].estimateTimer[1]}])
    /\ UNCHANGED <<pc, buffer, attempts, log, result, error, parsed, input, output, viewer>>

\* applyLossyCompression of estimate e resolves: the size is written if the
\* generation is still that of e
CompressionDone(e) ==
    /\ pc = "compressor"
    /\ e \in compressor[1].compressing
    /\ compressor' = Some([compressor[1] EXCEPT
                             !.compressing = @ \ {e},
                             !.estimatedSize = IF e.gen = compressor[1].estimateGen
                                               THEN BlobSize(e.bmp, e.q) ELSE @])
    /\ UNCHANGED <<pc, buffer, attempts, log, result, error, parsed, input, output, viewer>>

\* reset(), and the effect that follows: with bitmap null it returns at once
Reset ==
    /\ pc = "compressor"
    /\ compressor[1].file # None
    /\ compressor' = Some([compressor[1] EXCEPT !.file = None,
                                                !.bitmap = None,
                                                !.originalSize = 0,
                                                !.estimatedSize = 0,
                                                !.quality = DefaultQuality])
    /\ UNCHANGED <<pc, buffer, attempts, log, result, error, parsed, input, output, viewer>>

NextCompressor ==
    \/ CompressorFileSelect
    \/ SetQuality
    \/ TimerFires
    \/ \E e \in compressor[1].compressing : CompressionDone(e)
    \/ Reset

SpecCompressor == InitCompressor /\ [][NextCompressor]_vars

\* C30: estimatedSize is only set from the estimate requested last: a size
\* that is written is the size of the current bitmap at the current quality,
\* and with the bitmap cleared by reset() no size is written.
C30_OnlyLatestEstimate ==
    [][(compressor'[1].estimatedSize # compressor[1].estimatedSize
            /\ compressor'[1].estimatedSize # 0)
        => /\ compressor[1].bitmap # None
           /\ compressor'[1].estimatedSize =
                  BlobSize(compressor[1].bitmap[1], compressor[1].quality)]_vars



--------------------------------------------------------------------------
(* pixelDataToCanvas byte by byte, called on its own.  pd.data is an array *)
(* of bytes that spans its own buffer, as the parser makes it, so that     *)
(* new Uint8Array(pd.data.buffer || pd.data) has the bytes of pd.data.     *)

\* new Uint8ClampedArray(k): k bytes of 0
Zeros(k) == [i \in 1..k |-> 0]

\* buf.set(src): the bytes of src over the first bytes of buf; None where it
\* throws, src being longer than buf
TypedArraySet(buf, src) ==
    IF Len(src) > Len(buf) THEN None
    ELSE Some([i \in 1..Len(buf) |-> IF i <= Len(src) THEN src[i] ELSE buf[i]])

\* CopyInto without the cut to the length of buf: buf.set(src)
CopyInto_Untruncated(buf, src) == TypedArraySet(buf, src)

\* buf.set(src.length <= buf.length ? src : src.subarray(0, buf.length))
CopyInto(buf, src) ==
    TypedArraySet(buf, IF Len(src) <= Len(buf) THEN src ELSE SubSeq(src, 1, Len(buf)))

\* pixelDataToCanvas({data, width: w, height: h}): whether it threw, the size
\* of the canvas and the bytes put on it (None: nothing was put); has2d:
\* getContext('2d') gave a context.  new ImageData(buf, w, h) throws where w
\* or h is 0.
pixelDataToCanvasBytes(data, w, h, has2d) ==
    LET blank == [threw |-> FALSE, width |-> w, height |-> h, plane |-> None,
                  has2d |-> has2d]
    IN  IF has2d /\ Len(data) > 0
        THEN LET buf == CopyInto(Zeros(w * h * 4), data) IN
             IF buf = None \/ w = 0 \/ h = 0 THEN [blank EXCEPT !.threw = TRUE]
             ELSE [blank EXCEPT !.plane = buf]
        ELSE blank

\* n bytes, none of them 0, no two neighbours equal
SourceBytes(n) == [i \in 1..n |-> (i % 7) + 1]

InitPixelData ==
    /\ pc = "call"
    /\ buffer = None
    /\ attempts = <<>>
    /\ log = <<>>
    /\ result = None
    /\ error = None
    /\ parsed = None
    /\ \E w \in 0..MaxDim, h \in 0..MaxDim, n \in 0..(MaxDim * MaxDim * 4 + 2) :
          input = Some([data |-> SourceBytes(n), width |-> w, height |-> h])
    /\ output = <<>>
    /\ viewer = None
    /\ compressor = None

\* pixelDataToCanvas(pd)
ConvertPixelData ==
    /\ pc = "call"
    /\ \E has2d \in BOOLEAN :
          output' = << Call("pixelDataToCanvas",
                            pixelDataToCanvasBytes(input[1].data, input[1].width,
                                                   input[1].height, has2d)) >>
    /\ pc' = "done"
    /\ UNCHANGED <<buffer, attempts, log, result, error, parsed, input, viewer, compressor>>

SpecPixelData == InitPixelData /\ [][ConvertPixelData]_vars

\* the plane is of w * h * 4 bytes: the bytes of data as far as they go and
\* as far as there is room, and 0 after them
PlaneOf(plane, data, w, h) ==
    /\ plane # None
    /\ Len(plane[1]) = w * h * 4
    /\ \A i \in 1..(w * h * 4) :
          plane[1][i] = IF i <= Len(data) THEN data[i] ELSE 0

\* C27 as stated: pixelDataToCanvas never throws; from data of n > 0 bytes it
\* makes a w x h surface with a plane of exactly w * h * 4 bytes, the first
\* min(n, w * h * 4) those of the data and the rest 0; from no bytes it makes
\* a blank w x h surface.
C27_NeverFails ==
    pc = "done" =>
        LET pd == input[1]
            c == output[1].value
        IN  /\ ~c.threw
            /\ c.width = pd.width /\ c.height = pd.height
            /\ Len(pd.data) > 0 => PlaneOf(c.plane, pd.data, pd.width, pd.height)
            /\ Len(pd.data) = 0 => c.plane = None

\* C27, amended: with a 2D context and a width and height above 0,
\* pixelDataToCanvas makes from data of n > 0 bytes a w x h surface with a
\* plane of exactly w * h * 4 bytes, the first min(n, w * h * 4) those of the
\* data and the rest 0; with a 2D context and a width or height of 0 it
\* throws for n > 0; from no bytes, or without a 2D context, it makes a blank
\* w x h surface.
C27_PlaneOfDeclaredSize ==
    pc = "done" =>
        LET pd == input[1]
            c == output[1].value
            n == Len(pd.data)
        IN  /\ (n > 0 /\ c.has2d /\ pd.width > 0 /\ pd.height > 0) =>
                  /\ ~c.threw
                  /\ c.width = pd.width /\ c.height = pd.height
                  /\ PlaneOf(c.plane, pd.data, pd.width, pd.height)
            /\ (n > 0 /\ c.has2d /\ (pd.width = 0 \/ pd.height = 0)) => c.threw
            /\ (n = 0 \/ ~c.has2d) =>
                  /\ ~c.threw
                  /\ c.width = pd.width /\ c.height = pd.height
                  /\ c.plane = None

\* data longer than the plane was cut to it
C27_Witness ==
    /\ pc = "done"
    /\ output[1].call = "pixelDataToCanvas"
    /\ output[1].value.plane # None
    /\ Len(input[1].data) > Len(output[1].value.plane[1])



--------------------------------------------------------------------------
(* The Layer Tree Builder, which is part of the parser and not of the      *)
(* sources at hand: the stack algorithm as the specification words it.  A  *)
(* record is a start-of-group marker, an end-of-group marker or a normal   *)
(* layer; a node of the tree carries the position of its record.           *)

\* most records in a flat list
MaxRecords == 5

RecordKinds == {"start", "end", "layer"}

RECURSIVE RecordLists(_)
\* the flat lists of exactly n records
RecordLists(n) ==
    IF n = 0 THEN { <<>> }
    ELSE { <<k>> \o rest : k \in RecordKinds, rest \in RecordLists(n - 1) }

\* a frame of the stack: an open group (0: the document root) and the
\* children gathered for it so far
Frame(id) == [id |-> id, children |-> <<>>]

\* node appended as a child of the frame on top of the stack
AppendChild(stack, node) ==
    [stack EXCEPT ![Len(stack)].children = Append(@, node)]

\* the top frame popped, and its Layer node, with the children gathered,
\* attached to the frame below
PopFrame(stack) ==
    LET f == stack[Len(stack)] IN
    AppendChild(SubSeq(stack, 1, Len(stack) - 1),
                [id |-> f.id, children |-> Some(f.children)])

\* CloseOpenFrames leaving the open groups out of the tree
CloseOpenFrames_Dropped(stack) == Returned(Some(stack[1].children))

RECURSIVE CloseOpenFrames(_)
\* end of list: the frames still open are closed one after the other
CloseOpenFrames(stack) ==
    IF Len(stack) = 1 THEN Returned(Some(stack[1].children))
    ELSE CloseOpenFrames(PopFrame(stack))

RECURSIVE BuildFrom(_, _, _)
\* the builder at record i: a start marker pushes a frame, an end marker
\* pops one, a normal layer goes to the top frame; an end marker with no
\* group open is a failure of tree balance, which aborts the stage
BuildFrom(list, i, stack) ==
    IF i > Len(list) THEN CloseOpenFrames(stack)
    ELSE CASE list[i] = "start" -> BuildFrom(list, i + 1, Append(stack, Frame(i)))
           [] list[i] = "end" ->
                IF Len(stack) = 1 THEN Thrown
                ELSE BuildFrom(list, i + 1, PopFrame(stack))
           [] list[i] = "layer" ->
                BuildFrom(list, i + 1,
                          AppendChild(stack, [id |-> i, children |-> None]))

BuildLayerTree(list) == BuildFrom(list, 1, << Frame(0) >>)

InitBuilder ==
    /\ pc = "call"
    /\ buffer = None
    /\ attempts = <<>>
    /\ log = <<>>
    /\ result = None
    /\ error = None
    /\ parsed = None
    /\ \E n \in 0..MaxRecords : \E list \in RecordLists(n) : input = Some(list)
    /\ output = <<>>
    /\ viewer = None
    /\ compressor = None

BuildTree ==
    /\ pc = "call"
    /\ output' = << Call("buildLayerTree", BuildLayerTree(input[1])) >>
    /\ pc' = "done"
    /\ UNCHANGED <<buffer, attempts, log, result, error, parsed, input, viewer, compressor>>

SpecBuilder == InitBuilder /\ [][BuildTree]_vars

RECURSIVE ParentPairs(_, _)
\* the pairs <<node, parent>> of a tree given as the child list of parent
ParentPairs(children, parent) ==
    UNION { { <<children[k].id, parent>> } \cup
            (IF children[k].children = None THEN {}
             ELSE ParentPairs(children[k].children[1], children[k].id))
            : k \in 1..Len(children) }

RECURSIVE NodeTotal(_)
\* the number of nodes of a tree, a node counted as often as it occurs
NodeTotal(children) ==
    IF children = <<>> THEN 0
    ELSE 1 + (IF children[1].children = None THEN 0
              ELSE NodeTotal(children[1].children[1]))
           + NodeTotal(Tail(children))

RECURSIVE InnermostOpen(_, _, _)
\* the group open just before record i: going back from record j, with d end
\* markers met whose start markers are yet to come; 0 where none is open
InnermostOpen(list, j, d) ==
    IF j < 1 THEN 0
    ELSE CASE list[j] = "end" -> InnermostOpen(list, j - 1, d + 1)
           [] list[j] = "start" ->
                IF d = 0 THEN j ELSE InnermostOpen(list, j - 1, d - 1)
           [] list[j] = "layer" -> InnermostOpen(list, j - 1, d)

\* some end marker of the list comes with no group open
UnmatchedEnd(list) ==
    \E i \in 1..Len(list) : list[i] = "end" /\ InnermostOpen(list, i - 1, 0) = 0

\* the tree is well formed for the list: every normal record and every
\* start marker is a node exactly once, as a leaf or a group, under the
\* innermost group open at its position, or under the root
WellFormed(tree, list) ==
    /\ tree.threw = FALSE
    /\ LET pairs == ParentPairs(tree.value[1], 0)
           nodes == { i \in 1..Len(list) : list[i] # "end" }
       IN  /\ pairs = { <<i, InnermostOpen(list, i - 1, 0)>> : i \in nodes }
           /\ NodeTotal(tree.value[1]) = Cardinality(nodes)
           /\ \A pr \in pairs :
                 pr[2] # 0 => list[pr[2]] = "start"

\* C26 as stated: for every flat record list the builder yields a
\* well-formed tree.
C26_EveryListYieldsTree ==
    pc = "done" => WellFormed(output[1].value, input[1])

\* C26, amended: for every flat record list in which no end marker comes
\* with no group open, lists with groups left open included, the builder
\* yields a well-formed tree, the open groups closed at the end of the list;
\* for a list with such an end marker it fails.
C26_TreeUnlessUnmatchedEnd ==
    pc = "done" =>
        IF UnmatchedEnd(input[1]) THEN output[1].value.threw
        ELSE WellFormed(output[1].value, input[1])

\* a list with two groups left open and a layer in the inner one
C26_Witness ==
    /\ pc = "done"
    /\ input[1] = << "start", "layer", "start", "layer" >>
    /\ ~output[1].value.threw
    /\ <<4, 3>> \in ParentPairs(output[1].value.value[1], 0)

==========================================================================
